---- MODULE Spec2Model ----
(***************************************************************************)
(* A model of the peer-to-peer payment ledger of src/src/app.py (the Flask *)
(* request handlers) and src/src/db.py (DatabaseDriver over one shared     *)
(* sqlite3 connection).                                                    *)
(*                                                                         *)
(* Every handler is a sequence of steps, one step per DatabaseDriver call  *)
(* together with the Python code that runs up to the next call.  The       *)
(* values of the JSON body are chosen when the handler reads them.         *)
(* Columns that no handler branches on (name, username, timestamp) are not *)
(* stored; balances and amounts are integers, the declared column type.    *)
(***************************************************************************)
EXTENDS Integers, Sequences, FiniteSets, TLC

\* ------------------------------------------------------------- bounds
MaxUsers == 2      \* user ids handed out between two resets
MaxTxns == 2       \* transaction ids handed out between two resets
MaxAmount == 1     \* largest amount in a request body
MaxNeg == 1        \* the most negative amount in a request body is -MaxNeg
MaxInitial == 1    \* largest balance in a create-user body
MaxBal == 2        \* requests are explored while balances stay in -MaxBal..MaxBal

Threads == {1, 2}          \* request threads of the server
SeqThreads == {1}          \* the thread used when requests run one at a time

\* ------------------------------------------------------------- values
\* Python None / JSON null / SQL NULL is the empty tuple, a value v is <<v>>.
None == <<>>
Some(v) == <<v>>

UserIds == 1..MaxUsers
TxnIds == 1..MaxTxns
IdInputs == {None} \cup {Some(i) : i \in UserIds}
AmountInputs == {None} \cup {Some(a) : a \in (0 - MaxNeg)..MaxAmount}
MessageInputs == {None, Some("m")}
InitialBalances == 0..MaxInitial
\* body["accepted"] of POST /transactions/: null, true, false, anything else
CreateAccepted == {"null", "true", "false", "other"}
\* the body of POST /transactions/<id>/: key absent, true, false, anything else
DecideAccepted == {"absent", "true", "false", "other"}

\* what the request bodies are drawn from when requests run one at a time
AllInputs ==
    [names |-> {None, Some("n")}, balances |-> InitialBalances, ids |-> IdInputs,
     amounts |-> AmountInputs, messages |-> MessageInputs,
     created |-> CreateAccepted, decided |-> DecideAccepted, history |-> TRUE]

\* the well-formed bodies, which the interleavings of two threads are explored with
ValidInputs ==
    [names |-> {Some("n")}, balances |-> {MaxInitial}, ids |-> {Some(i) : i \in UserIds},
     amounts |-> {Some(MaxAmount)}, messages |-> {Some("m")},
     created |-> {"null", "true"}, decided |-> {"true", "false"}, history |-> FALSE]

VARIABLES
    users,      \* table users as the connection sees it: id -> [balance, initial]
    txns,       \* table txn as the connection sees it: id -> row
    userSeq,    \* AUTOINCREMENT counter of users (largest id handed out)
    txnSeq,     \* AUTOINCREMENT counter of txn
    disk,       \* the committed database: what survives a crash
    th          \* per request thread: handler, position, locals, response code

vars == <<users, txns, userSeq, txnSeq, disk, th>>

\* ------------------------------------------------------------- DatabaseDriver
\* sqlite3 stores Python True as 1 and False as 0 in the BOOLEAN column
sqlBool(b) == IF b = "true" THEN 1 ELSE 0

query_user_by_id(U, id) == IF id \in DOMAIN U THEN Some(U[id]) ELSE None

query_user_balance(U, id) == IF id \in DOMAIN U THEN Some(U[id].balance) ELSE None

query_txn_for_spec_transac(T, id) == IF id \in DOMAIN T THEN Some(T[id]) ELSE None

query_txn_for_spec_user(T, user_id) ==
    {i \in DOMAIN T : T[i].sender_id = user_id \/ T[i].receiver_id = user_id}

insert_user_table(U, id, balance) ==
    U @@ (id :> [balance |-> balance, initial |-> balance])

\* SET balance = ? in place of SET balance = balance + ?
update_user_overwrites(U, id, amount) ==
    [u \in DOMAIN U |-> IF u = id THEN [U[u] EXCEPT !.balance = amount] ELSE U[u]]
update_user(U, id, amount) ==
    [u \in DOMAIN U |-> IF u = id THEN [U[u] EXCEPT !.balance = @ + amount] ELSE U[u]]

\* message is TEXT NOT NULL: the INSERT raises IntegrityError on a null message
InsertRejected(message) == message = None

\* sender_id and receiver_id in each other's place in the VALUES tuple
insert_user_txn_swapped(T, id, sender_id, receiver_id, amount, accepted) ==
    T @@ (id :> [sender_id |-> receiver_id, receiver_id |-> sender_id,
                 amount |-> amount,
                 accepted |-> IF accepted = "null" THEN None
                              ELSE Some(sqlBool(accepted))])

insert_user_txn(T, id, sender_id, receiver_id, amount, accepted) ==
    T @@ (id :> [sender_id |-> sender_id, receiver_id |-> receiver_id,
                 amount |-> amount,
                 accepted |-> IF accepted = "null" THEN None
                              ELSE Some(sqlBool(accepted))])

\* the UPDATE without its WHERE clause
update_transaction_status_everywhere(T, txn_id, new_accepted) ==
    [i \in DOMAIN T |-> [T[i] EXCEPT !.accepted = Some(sqlBool(new_accepted))]]

update_transaction_status(T, txn_id, new_accepted) ==
    [i \in DOMAIN T |-> IF i = txn_id
                        THEN [T[i] EXCEPT !.accepted = Some(sqlBool(new_accepted))]
                        ELSE T[i]]

\* remove_user: the two DELETE statements, committed together afterwards
\* DELETE FROM users without its WHERE clause
remove_user_row_everyone(U, id) == <<>>
remove_user_row(U, id) == [u \in DOMAIN U \ {id} |-> U[u]]
\* the DELETE with WHERE sender_id = ? alone
remove_user_txns_sent_only(T, id) ==
    [i \in {j \in DOMAIN T : T[j].sender_id # id} |-> T[i]]
remove_user_txns(T, id) ==
    [i \in {j \in DOMAIN T : T[j].sender_id # id /\ T[j].receiver_id # id} |-> T[i]]

\* INTEGER PRIMARY KEY without AUTOINCREMENT: one more than the largest id stored
autoincrement_largest_stored(seq, T) ==
    IF DOMAIN T = {} THEN 1 ELSE (CHOOSE i \in DOMAIN T : \A j \in DOMAIN T : j <= i) + 1
\* AUTOINCREMENT: one more than the largest id the table has ever handed out
autoincrement(seq, T) == seq + 1

Committed(U, T, us, ts) == [users |-> U, txns |-> T, userSeq |-> us, txnSeq |-> ts]

\* ------------------------------------------------------------- handler conditions
\* the decided check left out
AlreadyDecided_never(row) == FALSE
AlreadyDecided(row) == row.accepted # None

\* a test for anything but null in place of `accepted is True`
IsTrue_not_null(accepted) == accepted # "null"
\* accepted is True (app.py 125)
IsTrue(accepted) == accepted = "true"

\* <= in place of <
InsufficientFunds_strict(balance, amount) == balance <= amount
InsufficientFunds(balance, amount) == balance < amount

\* ------------------------------------------------------------- threads
NoRow == [sender_id |-> 0, receiver_id |-> 0, amount |-> 0, accepted |-> None]
Snapshot == [users |-> users, txns |-> txns]
NoSnapshot == [users |-> <<>>, txns |-> <<>>]

Idle ==
    [pc |-> "idle", op |-> "none", code |-> 0, id |-> 0, sender_id |-> 0,
     receiver_id |-> 0, amount |-> 0, message |-> None, accepted |-> "none",
     row |-> NoRow, pre |-> NoSnapshot]

Respond(t, r, code) == th' = [th EXCEPT ![t] = [r EXCEPT !.pc = "done", !.code = code]]
Goto(t, r, pc) == th' = [th EXCEPT ![t] = [r EXCEPT !.pc = pc]]
\* pre remembers the ledger the request found, where In.history asks for it
Start(op, In) ==
    [Idle EXCEPT !.op = op, !.pre = IF In.history THEN Snapshot ELSE NoSnapshot]

Commit == disk' = Committed(users', txns', userSeq', txnSeq')
NoWrite == UNCHANGED <<users, txns, userSeq, txnSeq, disk>>

InRange(b) == (0 - MaxBal) <= b /\ b <= MaxBal

Init ==
    /\ users = <<>>
    /\ txns = <<>>
    /\ userSeq = 0
    /\ txnSeq = 0
    /\ disk = Committed(<<>>, <<>>, 0, 0)
    /\ th = [t \in Threads |-> Idle]

\* ------------------------------------------------------------- POST /api/users/
create_user(t, In) ==
    /\ th[t].pc = "idle"
    /\ \E username, name \in In.names, balance \in In.balances :
         LET r == Start("create_user", In) IN
         IF username = None \/ name = None
         THEN Respond(t, r, 400) /\ NoWrite
         ELSE /\ userSeq < MaxUsers
              /\ userSeq' = autoincrement(userSeq, users)
              /\ users' = insert_user_table(users, userSeq', balance)
              /\ UNCHANGED <<txns, txnSeq>>
              /\ Commit
              /\ Goto(t, [r EXCEPT !.id = userSeq'], "cu_query")

create_user_query(t) ==
    /\ th[t].pc = "cu_query"
    /\ NoWrite
    /\ IF query_user_by_id(users, th[t].id) = None
       THEN Respond(t, th[t], 500)
       ELSE Respond(t, th[t], 201)

\* ------------------------------------------------------------- DELETE /api/user/<id>/
delete_user(t, In) ==
    /\ th[t].pc = "idle"
    /\ NoWrite
    /\ \E user_id \in UserIds :
         LET r == [Start("delete_user", In) EXCEPT !.id = user_id] IN
         IF query_user_by_id(users, user_id) = None
         THEN Respond(t, r, 404)
         ELSE Goto(t, r, "du_txns")

\* transactions = DB.query_txn_for_spec_user(user_id), kept for the response body
delete_user_txns(t) ==
    /\ th[t].pc = "du_txns"
    /\ NoWrite
    /\ Goto(t, th[t], "du_remove_row")

\* remove_user, first statement: DELETE FROM users, not yet committed
delete_user_remove_row(t) ==
    /\ th[t].pc = "du_remove_row"
    /\ users' = remove_user_row(users, th[t].id)
    /\ UNCHANGED <<txns, userSeq, txnSeq, disk>>
    /\ Goto(t, th[t], "du_remove_txns")

\* remove_user, second statement and commit: DELETE FROM txn
delete_user_remove_txns(t) ==
    /\ th[t].pc = "du_remove_txns"
    /\ txns' = remove_user_txns(txns, th[t].id)
    /\ UNCHANGED <<users, userSeq, txnSeq>>
    /\ Commit
    /\ Respond(t, th[t], 200)

\* ------------------------------------------------------------- POST /api/reset/
\* DROP TABLE also drops the table's AUTOINCREMENT counter
reset_tables(t, In) ==
    /\ th[t].pc = "idle"
    /\ users' = <<>>
    /\ txns' = <<>>
    /\ userSeq' = 0
    /\ txnSeq' = 0
    /\ Commit
    /\ Respond(t, Start("reset_tables", In), 200)

\* ------------------------------------------------------------- POST /api/transactions/
send_sender(t, In) ==
    /\ th[t].pc = "idle"
    /\ NoWrite
    /\ \E sender_id \in In.ids :
         LET r == Start("send_or_request", In) IN
         IF sender_id = None \/ query_user_by_id(users, sender_id[1]) = None
         THEN Respond(t, r, 404)
         ELSE Goto(t, [r EXCEPT !.sender_id = sender_id[1]], "sr_receiver")

send_receiver(t, In) ==
    /\ th[t].pc = "sr_receiver"
    /\ NoWrite
    /\ \E receiver_id \in In.ids :
         IF receiver_id = None \/ query_user_by_id(users, receiver_id[1]) = None
         THEN Respond(t, th[t], 404)
         ELSE Goto(t, [th[t] EXCEPT !.receiver_id = receiver_id[1]], "sr_body")

\* transactions that threads past their checks will still insert
PendingInserts ==
    Cardinality({u \in Threads : th[u].pc \in {"sr_debit", "sr_credit", "sr_insert"}
                                 /\ ~InsertRejected(th[u].message)})

\* lines 116-127: amount, message, accepted, then the first database call of
\* the chosen branch (the INSERT of a request, or the balance read of a transfer)
send_body(t, In) ==
    /\ th[t].pc = "sr_body"
    /\ \E amount \in In.amounts, message \in In.messages, accepted \in In.created :
         LET r == [th[t] EXCEPT !.message = message, !.accepted = accepted] IN
         IF amount = None
         THEN Respond(t, th[t], 404) /\ NoWrite
         ELSE LET a == amount[1]
                  ra == [r EXCEPT !.amount = a] IN
              IF accepted = "null"
              THEN IF InsertRejected(message)
                   THEN Respond(t, ra, 500) /\ NoWrite
                   ELSE /\ txnSeq + PendingInserts < MaxTxns
                        /\ txnSeq' = autoincrement(txnSeq, txns)
                        /\ txns' = insert_user_txn(txns, txnSeq', ra.sender_id,
                                                   ra.receiver_id, a, accepted)
                        /\ UNCHANGED <<users, userSeq>>
                        /\ Commit
                        /\ Respond(t, [ra EXCEPT !.id = txnSeq'], 201)
              ELSE IF IsTrue(accepted)
              THEN LET bal == query_user_balance(users, ra.sender_id) IN
                   /\ NoWrite
                   /\ IF bal = None
                      THEN Respond(t, ra, 500)
                      ELSE IF InsufficientFunds(bal[1], a)
                      THEN Respond(t, ra, 403)
                      ELSE /\ InsertRejected(message) \/ txnSeq + PendingInserts < MaxTxns
                           /\ InRange(bal[1] - a)
                           /\ \A u \in DOMAIN users : InRange(users[u].balance + a)
                           /\ Goto(t, ra, "sr_debit")
              ELSE Respond(t, [th[t] EXCEPT !.accepted = accepted], 404) /\ NoWrite

send_debit(t) ==
    /\ th[t].pc = "sr_debit"
    /\ users' = update_user(users, th[t].sender_id, 0 - th[t].amount)
    /\ UNCHANGED <<txns, userSeq, txnSeq>>
    /\ Commit
    /\ Goto(t, th[t], "sr_credit")

send_credit(t) ==
    /\ th[t].pc = "sr_credit"
    /\ users' = update_user(users, th[t].receiver_id, th[t].amount)
    /\ UNCHANGED <<txns, userSeq, txnSeq>>
    /\ Commit
    /\ Goto(t, th[t], "sr_insert")

send_insert(t) ==
    /\ th[t].pc = "sr_insert"
    /\ IF InsertRejected(th[t].message)
       THEN Respond(t, th[t], 500) /\ NoWrite
       ELSE /\ txnSeq' = autoincrement(txnSeq, txns)
            /\ txns' = insert_user_txn(txns, txnSeq', th[t].sender_id,
                                       th[t].receiver_id, th[t].amount, th[t].accepted)
            /\ UNCHANGED <<users, userSeq>>
            /\ Commit
            /\ Respond(t, [th[t] EXCEPT !.id = txnSeq'], 201)

\* ------------------------------------------------------------- POST /api/transactions/<id>/
\* lines 145-157 and 185: the row read, the decided check, the body
decide_read(t, In) ==
    /\ th[t].pc = "idle"
    /\ NoWrite
    /\ \E id \in TxnIds, change_accepted \in In.decided :
         LET r == [Start("accept_deny_request", In) EXCEPT !.id = id]
             desired_transac == query_txn_for_spec_transac(txns, id) IN
         IF desired_transac = None
         THEN Respond(t, r, 404)
         ELSE IF AlreadyDecided(desired_transac[1])
         THEN Respond(t, r, 403)
         ELSE LET rr == [r EXCEPT !.row = desired_transac[1],
                                  !.accepted = change_accepted] IN
              IF change_accepted = "absent"
              THEN Respond(t, rr, 400)
              ELSE IF change_accepted = "true"
              THEN /\ \A u \in DOMAIN users :
                        /\ InRange(users[u].balance - rr.row.amount)
                        /\ InRange(users[u].balance + rr.row.amount)
                   /\ Goto(t, rr, "dc_balance")
              ELSE IF change_accepted = "false"
              THEN Goto(t, rr, "dc_deny")
              ELSE Respond(t, rr, 400)

\* the status written before the balance is checked
decide_balance_after_status(t) ==
    /\ th[t].pc = "dc_balance"
    /\ txns' = update_transaction_status(txns, th[t].id, th[t].accepted)
    /\ UNCHANGED <<users, userSeq, txnSeq>>
    /\ Commit
    /\ LET sender_balance == query_user_balance(users, th[t].row.sender_id) IN
       IF sender_balance = None \/ InsufficientFunds(sender_balance[1], th[t].row.amount)
       THEN Respond(t, th[t], 403)
       ELSE Goto(t, th[t], "dc_debit")

decide_balance(t) ==
    /\ th[t].pc = "dc_balance"
    /\ NoWrite
    /\ LET sender_balance == query_user_balance(users, th[t].row.sender_id) IN
       IF sender_balance = None \/ InsufficientFunds(sender_balance[1], th[t].row.amount)
       THEN Respond(t, th[t], 403)
       ELSE Goto(t, th[t], "dc_status")

decide_status(t) ==
    /\ th[t].pc = "dc_status"
    /\ txns' = update_transaction_status(txns, th[t].id, th[t].accepted)
    /\ UNCHANGED <<users, userSeq, txnSeq>>
    /\ Commit
    /\ Goto(t, th[t], "dc_debit")

decide_debit(t) ==
    /\ th[t].pc = "dc_debit"
    /\ users' = update_user(users, th[t].row.sender_id, 0 - th[t].row.amount)
    /\ UNCHANGED <<txns, userSeq, txnSeq>>
    /\ Commit
    /\ Goto(t, th[t], "dc_credit")

decide_credit(t) ==
    /\ th[t].pc = "dc_credit"
    /\ users' = update_user(users, th[t].row.receiver_id, th[t].row.amount)
    /\ UNCHANGED <<txns, userSeq, txnSeq>>
    /\ Commit
    /\ Goto(t, th[t], "dc_requery")

decide_deny(t) ==
    /\ th[t].pc = "dc_deny"
    /\ txns' = update_transaction_status(txns, th[t].id, th[t].accepted)
    /\ UNCHANGED <<users, userSeq, txnSeq>>
    /\ Commit
    /\ Goto(t, th[t], "dc_requery")

\* fixed_transac = DB.query_txn_for_spec_transac(id); fixed_transac[0] raises on None
decide_requery(t) ==
    /\ th[t].pc = "dc_requery"
    /\ NoWrite
    /\ IF query_txn_for_spec_transac(txns, th[t].id) = None
       THEN Respond(t, th[t], 500)
       ELSE Respond(t, th[t], 200)

\* ------------------------------------------------------------- the response is sent
Return(t) ==
    /\ th[t].pc = "done"
    /\ th' = [th EXCEPT ![t] = Idle]
    /\ NoWrite

\* the server process dies: requests in flight are lost, and the connection's
\* uncommitted statements are rolled back when the database is opened again
Crash ==
    /\ \E t \in Threads : th[t].pc # "idle"
    /\ th' = [t \in Threads |-> Idle]
    /\ users' = disk.users
    /\ txns' = disk.txns
    /\ userSeq' = disk.userSeq
    /\ txnSeq' = disk.txnSeq
    /\ UNCHANGED disk

Handlers(t, In) ==
    \/ create_user(t, In)
    \/ create_user_query(t)
    \/ delete_user(t, In)
    \/ delete_user_txns(t)
    \/ delete_user_remove_row(t)
    \/ delete_user_remove_txns(t)
    \/ reset_tables(t, In)
    \/ send_sender(t, In)
    \/ send_receiver(t, In)
    \/ send_body(t, In)
    \/ send_debit(t)
    \/ send_credit(t)
    \/ send_insert(t)
    \/ decide_read(t, In)
    \/ decide_balance(t)
    \/ decide_status(t)
    \/ decide_debit(t)
    \/ decide_credit(t)
    \/ decide_deny(t)
    \/ decide_requery(t)
    \/ Return(t)

\* requests run one at a time
Next == \E t \in SeqThreads : Handlers(t, AllInputs)

Spec == Init /\ [][Next]_vars

\* Two threads serve the money-moving and deleting requests, interleaved between
\* database calls, and the process may crash.  The runs start from the ledger that
\* two create-user requests and one payment request leave behind.
InitConc ==
    /\ users = insert_user_table(insert_user_table(<<>>, 1, MaxInitial), 2, MaxInitial)
    /\ txns = insert_user_txn(<<>>, 1, 1, 2, MaxAmount, "null")
    /\ userSeq = 2
    /\ txnSeq = 1
    /\ disk = Committed(users, txns, userSeq, txnSeq)
    /\ th = [t \in Threads |-> Idle]

ConcHandlers(t, In) ==
    \/ delete_user(t, In)
    \/ delete_user_txns(t)
    \/ delete_user_remove_row(t)
    \/ delete_user_remove_txns(t)
    \/ send_sender(t, In)
    \/ send_receiver(t, In)
    \/ send_body(t, In)
    \/ send_debit(t)
    \/ send_credit(t)
    \/ send_insert(t)
    \/ decide_read(t, In)
    \/ decide_balance(t)
    \/ decide_status(t)
    \/ decide_debit(t)
    \/ decide_credit(t)
    \/ decide_deny(t)
    \/ decide_requery(t)
    \/ Return(t)

NextConc == (\E t \in Threads : ConcHandlers(t, ValidInputs)) \/ Crash

SpecConc == InitConc /\ [][NextConc]_vars

\* ------------------------------------------------------------- measures of a ledger
RECURSIVE SumOver(_, _)
SumOver(f, S) ==
    IF S = {} THEN 0
    ELSE LET x == CHOOSE y \in S : TRUE IN f[x] + SumOver(f, S \ {x})

\* the sum of all user balances
Total(U) == SumOver([u \in DOMAIN U |-> U[u].balance], DOMAIN U)

Accepted(T) == {i \in DOMAIN T : T[i].accepted = Some(1)}
Pending(T) == {i \in DOMAIN T : T[i].accepted = None}

AcceptedReceived(T, u) ==
    SumOver([i \in DOMAIN T |-> T[i].amount], {i \in Accepted(T) : T[i].receiver_id = u})
AcceptedSent(T, u) ==
    SumOver([i \in DOMAIN T |-> T[i].amount], {i \in Accepted(T) : T[i].sender_id = u})

\* the balances after the amount of one transaction has moved
Settle(U, row) ==
    update_user(update_user(U, row.sender_id, 0 - row.amount), row.receiver_id, row.amount)

\* thread t has finished handler op and holds its response
Done(t, op) == th[t].pc = "done" /\ th[t].op = op
AllIdle == \A t \in Threads : th[t].pc = "idle"
Unchanged(t) == users = th[t].pre.users /\ txns = th[t].pre.txns

C2_LedgerEquation ==
    AllIdle =>
        \A u \in DOMAIN users :
            users[u].balance =
                users[u].initial + AcceptedReceived(txns, u) - AcceptedSent(txns, u)

\* C3: when requests run one at a time, no step of a direct transfer or of an
\* accept takes the balance of a user from a value >= 0 to a value < 0.
C3_NeverBelowZero ==
    [][\A u \in DOMAIN users \cap DOMAIN users' :
          users[u].balance >= 0 => users'[u].balance >= 0]_vars

\* C4: when requests run one at a time, the accepted field of a stored
\* transaction never changes once it is true or false, and a decide call on a
\* transaction that is already accepted or denied is answered 403 and changes
\* neither the transactions nor any balance.
C4_DecidedIsFinal ==
    /\ [][\A i \in DOMAIN txns \cap DOMAIN txns' :
            txns[i].accepted # None => txns'[i].accepted = txns[i].accepted]_vars
    /\ [](\A t \in Threads :
            (/\ Done(t, "accept_deny_request")
             /\ th[t].id \in DOMAIN th[t].pre.txns
             /\ th[t].pre.txns[th[t].id].accepted # None)
                => th[t].code = 403 /\ Unchanged(t))

\* a decide call on a decided transaction has been refused
C4_Witness ==
    \E t \in Threads :
        /\ Done(t, "accept_deny_request")
        /\ th[t].id \in DOMAIN th[t].pre.txns
        /\ th[t].pre.txns[th[t].id].accepted # None
        /\ th[t].code = 403

\* C5: of two concurrent decide requests on the same pending transaction at most
\* one succeeds.
C5_AtMostOneDecides ==
    \A t1, t2 \in Threads :
        (/\ t1 # t2
         /\ Done(t1, "accept_deny_request")
         /\ Done(t2, "accept_deny_request")
         /\ th[t1].id = th[t2].id)
            => ~(th[t1].code = 200 /\ th[t2].code = 200)

\* C6: the accept sequence and the direct-transfer sequence are atomic: every
\* change of the committed database that keeps the set of users either accepts
\* no transaction and moves no money, or accepts one transaction and moves
\* exactly its amount from its sender to its receiver.
C6_AtomicTransfer ==
    [][(disk' # disk /\ DOMAIN disk'.users = DOMAIN disk.users) =>
          LET newly == {i \in Accepted(disk'.txns) : i \notin Accepted(disk.txns)} IN
          IF newly = {}
          THEN disk'.users = disk.users
          ELSE \E i \in newly : disk'.users = Settle(disk.users, disk'.txns[i])]_vars

\* C7: a create-transaction call that fails leaves every balance and the stored
\* transactions as they were before the call.
C7_FailedCreateChangesNothing ==
    \A t \in Threads :
        (Done(t, "send_or_request") /\ th[t].code # 201) => Unchanged(t)

\* C8: a decide call that fails leaves every balance and every transaction as
\* they were before the call; a transaction whose accept was refused for
\* insufficient funds is still pending.
C8_FailedDecideChangesNothing ==
    \A t \in Threads :
        (Done(t, "accept_deny_request") /\ th[t].code # 200)
            => /\ Unchanged(t)
               /\ th[t].accepted = "true" => th[t].id \in Pending(txns)

\* an accept of a pending transaction has been refused for insufficient funds
C8_Witness ==
    \E t \in Threads :
        /\ Done(t, "accept_deny_request")
        /\ th[t].code = 403
        /\ th[t].accepted = "true"
        /\ th[t].id \in Pending(th[t].pre.txns)

C10_Deny ==
    \A t \in Threads :
        (Done(t, "accept_deny_request") /\ th[t].accepted = "false") =>
            /\ th[t].code = 200
            /\ users = th[t].pre.users
            /\ txns = [th[t].pre.txns EXCEPT ![th[t].id].accepted = Some(0)]

\* a request whose sender could not pay it has been denied while another
\* transaction is stored
C10_Witness ==
    \E t \in Threads :
        /\ Done(t, "accept_deny_request")
        /\ th[t].accepted = "false"
        /\ th[t].code = 200
        /\ th[t].pre.users[th[t].row.sender_id].balance < th[t].row.amount
        /\ \E i \in DOMAIN txns : i # th[t].id /\ txns[i].accepted # Some(0)

\* the row a create-transaction request of thread t asks for
Asked(t, accepted) ==
    [sender_id |-> th[t].sender_id, receiver_id |-> th[t].receiver_id,
     amount |-> th[t].amount, accepted |-> accepted]

\* thread t's request has stored exactly one new transaction, equal to row
StoredOne(t, row) ==
    /\ th[t].id \notin DOMAIN th[t].pre.txns
    /\ DOMAIN txns = DOMAIN th[t].pre.txns \cup {th[t].id}
    /\ txns[th[t].id] = row
    /\ \A i \in DOMAIN th[t].pre.txns : txns[i] = th[t].pre.txns[i]

\* C11: a create-transaction call with accepted=true and existing sender and
\* receiver fails with 403 when the sender's balance < amount; otherwise it
\* moves the amount from the sender to the receiver and stores exactly one new
\* transaction with accepted=true.
C11_DirectTransfer ==
    \A t \in Threads :
        (Done(t, "send_or_request") /\ th[t].accepted = "true") =>
            IF th[t].pre.users[th[t].sender_id].balance < th[t].amount
            THEN th[t].code = 403 /\ Unchanged(t)
            ELSE /\ th[t].code = 201
                 /\ users = Settle(th[t].pre.users, Asked(t, Some(1)))
                 /\ StoredOne(t, Asked(t, Some(1)))

\* C12, as stated: a create-transaction call with accepted unset and existing
\* sender and receiver stores exactly one new pending transaction and changes
\* no balance.
C12_RequestAsStated ==
    \A t \in Threads :
        (Done(t, "send_or_request") /\ th[t].accepted = "null") =>
            /\ th[t].code = 201
            /\ users = th[t].pre.users
            /\ StoredOne(t, Asked(t, None))

\* C12, amended: the same for a call whose amount and message are present,
\* whatever the sender's balance is.
C12_Request ==
    \A t \in Threads :
        (Done(t, "send_or_request") /\ th[t].accepted = "null") =>
            IF th[t].message = None
            THEN th[t].code # 201 /\ Unchanged(t)
            ELSE /\ th[t].code = 201
                 /\ users = th[t].pre.users
                 /\ StoredOne(t, Asked(t, None))

\* a request has been stored though its sender could not have paid it
C12_Witness ==
    \E t \in Threads :
        /\ Done(t, "send_or_request")
        /\ th[t].accepted = "null"
        /\ th[t].code = 201
        /\ th[t].sender_id # th[t].receiver_id
        /\ th[t].pre.users[th[t].sender_id].balance < th[t].amount

\* C13: every stored transaction has amount > 0.
C13_PositiveAmounts == \A i \in DOMAIN txns : txns[i].amount > 0

\* C14: a create-transaction call with accepted=false is rejected and stores
\* nothing, and a transaction becomes denied only by the deny step of a decide
\* call on a stored pending transaction.
C14_DeniedOnlyByDecide ==
    /\ [](\A t \in Threads :
            (Done(t, "send_or_request") /\ th[t].accepted = "false")
                => th[t].code # 201 /\ Unchanged(t))
    /\ [][\A i \in DOMAIN txns' :
            (txns'[i].accepted = Some(0) /\ ~(i \in DOMAIN txns /\ txns[i].accepted = Some(0)))
                => /\ i \in Pending(txns)
                   /\ \E t \in Threads : th[t].pc = "dc_deny" /\ th[t].id = i]_vars

\* a create with accepted=false has been rejected while a denied transaction is stored
C14_Witness ==
    \E t \in Threads :
        /\ Done(t, "send_or_request")
        /\ th[t].accepted = "false"
        /\ th[t].code = 404
        /\ \E i \in DOMAIN txns : txns[i].accepted = Some(0)

\* C15: deleting an existing user u removes u and exactly the transactions in
\* which u is sender or receiver: no stored transaction references u, no other
\* user's transaction list contains one of them, every other user and every
\* other transaction is unchanged; and only user deletion and reset remove
\* transactions.
C15_DeleteCascade ==
    /\ [](\A t \in Threads :
            (Done(t, "delete_user") /\ th[t].code = 200) =>
                LET u == th[t].id
                    before == th[t].pre
                    gone == query_txn_for_spec_user(before.txns, u) IN
                /\ u \in DOMAIN before.users
                /\ DOMAIN users = DOMAIN before.users \ {u}
                /\ \A v \in DOMAIN users : users[v] = before.users[v]
                /\ DOMAIN txns = DOMAIN before.txns \ gone
                /\ \A i \in DOMAIN txns : txns[i] = before.txns[i]
                /\ query_txn_for_spec_user(txns, u) = {}
                /\ \A v \in DOMAIN users : query_txn_for_spec_user(txns, v) \cap gone = {})
    /\ [][DOMAIN txns \ DOMAIN txns' # {} =>
            \E t \in Threads : /\ th'[t].pc = "done"
                               /\ th'[t].op \in {"delete_user", "reset_tables"}]_vars

\* a deletion has removed a transaction the user received and kept another one
C15_Witness ==
    \E t \in Threads :
        /\ Done(t, "delete_user")
        /\ th[t].code = 200
        /\ \E i \in DOMAIN th[t].pre.txns :
              /\ th[t].pre.txns[i].receiver_id = th[t].id
              /\ th[t].pre.txns[i].sender_id # th[t].id
        /\ txns # <<>>

\* C16: when requests run one at a time, between requests the sender and the
\* receiver of every stored transaction are existing users, and a
\* create-transaction call whose sender or receiver does not exist is answered
\* 404 and stores nothing.
C16_ReferencesExist ==
    /\ AllIdle => \A i \in DOMAIN txns :
                      txns[i].sender_id \in DOMAIN users /\ txns[i].receiver_id \in DOMAIN users
    /\ \A t \in Threads :
          (Done(t, "send_or_request") /\ th[t].receiver_id = 0)
              => th[t].code = 404 /\ Unchanged(t)

\* a create for a missing receiver has been refused after a user was deleted
\* and while transactions are stored
C16_Witness ==
    \E t \in Threads :
        /\ Done(t, "send_or_request")
        /\ th[t].sender_id # 0
        /\ th[t].receiver_id = 0
        /\ th[t].code = 404
        /\ txns # <<>>
        /\ Cardinality(DOMAIN users) < userSeq

\* C17: under any interleaving of a delete-user request with create-transaction
\* or decide requests, the committed database never holds a transaction whose
\* sender or receiver is not a stored user.
C17_AtomicDelete ==
    \A i \in DOMAIN disk.txns :
        /\ disk.txns[i].sender_id \in DOMAIN disk.users
        /\ disk.txns[i].receiver_id \in DOMAIN disk.users

\* C18: a reset leaves no users and no transactions; the id counters go back to
\* zero at a reset only, and every new user and every new transaction gets the
\* id one above its table's counter: 1 after a reset, otherwise above every id
\* handed out since the last reset, deleted rows included.
C18_Ids ==
    /\ [](\A t \in Threads :
            Done(t, "reset_tables") => users = <<>> /\ txns = <<>>)
    /\ [][/\ \A i \in DOMAIN users' \ DOMAIN users : i = userSeq + 1 /\ userSeq' = i
          /\ \A i \in DOMAIN txns' \ DOMAIN txns : i = txnSeq + 1 /\ txnSeq' = i
          /\ \A i \in DOMAIN users : i <= userSeq
          /\ \A i \in DOMAIN txns : i <= txnSeq
          /\ (userSeq' < userSeq \/ txnSeq' < txnSeq) =>
                /\ userSeq' = 0 /\ txnSeq' = 0 /\ users' = <<>> /\ txns' = <<>>
                /\ \E t \in Threads : th'[t].pc = "done" /\ th'[t].op = "reset_tables"]_vars

\* a reset has wiped tables whose first user had been deleted
C18_Witness ==
    \E t \in Threads :
        /\ Done(t, "reset_tables")
        /\ DOMAIN th[t].pre.users = {2}
        /\ th[t].pre.txns # <<>>
        /\ userSeq = 0
        /\ txnSeq = 0

\* C19: a debit of a direct transfer or of an accept is applied only to a
\* balance that is still >= its amount, also when another request debits the
\* same sender at the same time (two decide requests on one transaction, the
\* case of C5, left aside).
C19_DebitStillCovered ==
    [][\A t \in Threads :
          /\ (/\ th[t].pc = "sr_debit" /\ th'[t].pc = "sr_credit"
              /\ th[t].sender_id \in DOMAIN users)
                => users[th[t].sender_id].balance >= th[t].amount
          /\ (/\ th[t].pc = "dc_debit" /\ th'[t].pc = "dc_credit"
              /\ th[t].row.sender_id \in DOMAIN users
              /\ \A o \in Threads \ {t} :
                    ~(th[o].op = "accept_deny_request" /\ th[o].id = th[t].id))
                => users[th[t].row.sender_id].balance >= th[t].row.amount]_vars

\* C20: for sender_id == receiver_id a direct transfer or an accept with
\* balance >= amount succeeds, the transaction ends accepted and the user's
\* balance is what it was; with balance < amount it is answered 403.
C20_SelfTransfer ==
    \A t \in Threads :
        /\ (/\ Done(t, "send_or_request") /\ th[t].accepted = "true"
            /\ th[t].sender_id = th[t].receiver_id) =>
              IF th[t].pre.users[th[t].sender_id].balance >= th[t].amount
              THEN /\ th[t].code = 201
                   /\ users = th[t].pre.users
                   /\ th[t].id \in Accepted(txns)
              ELSE th[t].code = 403 /\ Unchanged(t)
        /\ (/\ Done(t, "accept_deny_request") /\ th[t].accepted = "true"
            /\ th[t].row.sender_id = th[t].row.receiver_id) =>
              IF th[t].pre.users[th[t].row.sender_id].balance >= th[t].row.amount
              THEN /\ th[t].code = 200
                   /\ users = th[t].pre.users
                   /\ th[t].id \in Accepted(txns)
              ELSE th[t].code = 403 /\ Unchanged(t)

====
